---- MODULE Spec2Model ----
(***************************************************************************)
(* Model of scripts/check-links.sh: the markdown link checker of the       *)
(* documentation site.  Strings are TLA+ strings; the bash pattern tests   *)
(* and the grep / sed regular expressions are computed character by        *)
(* character.                                                              *)
(***************************************************************************)
EXTENDS Integers, Sequences, FiniteSets, TLC

(***************************************************************************)
(* State                                                                   *)
(***************************************************************************)

VARIABLES
    args,               \* "$@"
    argi,               \* position of the argument loop
    FIX_MODE,
    SKIP_EXTERNAL,
    rootOk,             \* CONTENT_DIR exists and can be listed
    fs,                 \* the regular files under CONTENT_DIR and their text
    enum,               \* the order in which find lists the files
    queue,              \* output of find not yet read by main
    file,               \* main's current file, relative to CONTENT_DIR
    grepOut,            \* output of grep not yet read by process_file
    has_errors,
    curl,               \* the curl requests in flight
    BROKEN_FILE,        \* lines of the temporary file
    prompt,             \* the text piped to claude, line by line
    tmpExists,          \* the temporary file exists
    files_checked,
    files_with_errors,
    out,                \* standard output
    pc,
    exitCode,           \* exit status of the script, -1 while it runs
    occs,               \* every link occurrence the loop decided, in order
    removals,           \* files removed from the tree during the scan
    claudeRuns,         \* invocations of the repair collaborator
    claudeStatus,       \* exit status of the collaborator, -1 if it never ran
    linkNo,             \* lines of grep's output read for the current file
    previous,           \* the reports of the runs that ended before this one
    unread,             \* the files that grep could not read in this run
    testAll             \* the state of a run of test-all-tutorials.sh

vars == << args, argi, FIX_MODE, SKIP_EXTERNAL, rootOk, fs, enum, queue, file,
           grepOut, has_errors, curl, BROKEN_FILE, prompt, tmpExists,
           files_checked, files_with_errors, out, pc, exitCode, occs, removals,
           claudeRuns, claudeStatus, linkNo, previous, unread, testAll >>

Range(f) == { f[i] : i \in DOMAIN f }

(***************************************************************************)
(* String helpers                                                          *)
(***************************************************************************)

\* The character of s at position i (a one-character string).
CharAt(s, i) == SubSeq(s, i, i)

\* bash [[ "$s" == p* ]] with a literal prefix p.
StartsWith(s, p) == Len(s) >= Len(p) /\ SubSeq(s, 1, Len(p)) = p

\* Position of the first occurrence of character c in s at or after i; 0 if none.
IndexFrom(s, c, i) ==
    LET S == {j \in i..Len(s) : CharAt(s, j) = c}
    IN  IF S = {} THEN 0 ELSE CHOOSE j \in S : \A k \in S : j <= k

\* bash ${s%%c*}: remove the longest suffix that starts with character c.
StripFrom(s, c) ==
    LET j == IndexFrom(s, c, 1)
    IN  IF j = 0 THEN s ELSE SubSeq(s, 1, j - 1)

\* bash ${s#*c}: remove the shortest prefix that ends with character c.
StripThrough(s, c) ==
    LET j == IndexFrom(s, c, 1)
    IN  IF j = 0 THEN s ELSE SubSeq(s, j + 1, Len(s))

(***************************************************************************)
(* Link extraction: grep -noE '\[[^]]+\]\([^)]+\)' and the sed that pulls  *)
(* the URL out of one match.                                               *)
(***************************************************************************)

\* End position of a match of \[[^]]+\]\([^)]+\) that starts at i; 0 if none.
MatchEnd(s, i) ==
    IF i > Len(s) \/ CharAt(s, i) # "[" THEN 0
    ELSE LET j == IndexFrom(s, "]", i + 1)
         IN  IF j < i + 2 \/ j + 1 > Len(s) \/ CharAt(s, j + 1) # "(" THEN 0
             ELSE LET k == IndexFrom(s, ")", j + 2)
                  IN  IF k < j + 3 THEN 0 ELSE k

\* grep -o on one line: the non-overlapping matches, left to right.
RECURSIVE GrepLineFrom(_, _)
GrepLineFrom(s, i) ==
    IF i > Len(s) THEN <<>>
    ELSE LET k == MatchEnd(s, i)
         IN  IF k = 0 THEN GrepLineFrom(s, i + 1)
             ELSE <<SubSeq(s, i, k)>> \o GrepLineFrom(s, k + 1)

\* grep -n -o on a document: one "n:match" output line per match.
RECURSIVE GrepFrom(_, _)
GrepFrom(doc, n) ==
    IF n > Len(doc) THEN <<>>
    ELSE LET ms == GrepLineFrom(doc[n], 1)
         IN  [i \in 1..Len(ms) |-> ToString(n) \o ":" \o ms[i]] \o GrepFrom(doc, n + 1)

Grep(doc) == GrepFrom(doc, 1)

\* The URL group of \[([^]]*)\]\(([^)]+)\) matched at p, or "" if no match at p.
SedGroupAt(s, p) ==
    IF CharAt(s, p) # "[" THEN ""
    ELSE LET j == IndexFrom(s, "]", p + 1)
         IN  IF j = 0 \/ j + 1 > Len(s) \/ CharAt(s, j + 1) # "(" THEN ""
             ELSE LET k == IndexFrom(s, ")", j + 2)
                  IN  IF k < j + 3 THEN "" ELSE SubSeq(s, j + 2, k - 1)

\* sed -E 's/.*\[([^]]*)\]\(([^)]+)\).*/\2/': the leading .* is greedy, so
\* the group is taken at the last position where the token matches; the
\* input is returned unchanged when nothing matches.
SedUrl(content) ==
    LET P == {p \in 1..Len(content) : SedGroupAt(content, p) # ""}
    IN  IF P = {} THEN content
        ELSE SedGroupAt(content, CHOOSE p \in P : \A q \in P : q <= p)

(***************************************************************************)
(* check_internal_path and check_external_url                              *)
(***************************************************************************)

\* [[ "$path" =~ ^/docs/guides/([^/]+)/([^/]+)$ ]]
IsGuidePath(path) ==
    /\ StartsWith(path, "/docs/guides/")
    /\ LET rest == SubSeq(path, 14, Len(path))
           j    == IndexFrom(rest, "/", 1)
       IN  j >= 2 /\ j < Len(rest) /\ IndexFrom(rest, "/", j + 1) = 0

\* GuideFile with the category directory left out of the file name.
GuideFile_no_category(path) ==
    LET rest == SubSeq(path, 14, Len(path))
        j    == IndexFrom(rest, "/", 1)
        slug == SubSeq(rest, j + 1, Len(rest))
    IN  "guides/" \o slug \o ".md"

\* "$CONTENT_DIR/guides/$category/$slug.md", relative to CONTENT_DIR.
GuideFile(path) ==
    LET rest     == SubSeq(path, 14, Len(path))
        j        == IndexFrom(rest, "/", 1)
        category == SubSeq(rest, 1, j - 1)
        slug     == SubSeq(rest, j + 1, Len(rest))
    IN  "guides/" \o category \o "/" \o slug \o ".md"

\* [[ "$path" =~ ^/docs/tutorials/([^/]+)$ ]]
IsTutorialPath(path) ==
    /\ StartsWith(path, "/docs/tutorials/")
    /\ Len(path) > 16
    /\ IndexFrom(path, "/", 17) = 0

\* "$CONTENT_DIR/tutorials/$slug.md", relative to CONTENT_DIR.
TutorialFile(path) == "tutorials/" \o SubSeq(path, 17, Len(path)) \o ".md"

\* check_internal_path answering from the files the tree held when the run
\* started instead of testing the file system at the time of the call.
check_internal_path_cached(url, files) ==
    LET path == StripFrom(url, "#")
    IN  IF IsGuidePath(path) THEN GuideFile(path) \in Range(enum)
        ELSE IF IsTutorialPath(path) THEN TutorialFile(path) \in Range(enum)
        ELSE IF path = "/docs" \/ path = "/docs/" THEN TRUE
        ELSE IF path = "/" THEN TRUE
        ELSE FALSE

\* check_internal_path whose docs pattern is ^/docs$ instead of ^/docs/?$.
check_internal_path_docs_only(url, files) ==
    LET path == StripFrom(url, "#")
    IN  IF IsGuidePath(path) THEN GuideFile(path) \in files
        ELSE IF IsTutorialPath(path) THEN TutorialFile(path) \in files
        ELSE IF path = "/docs" THEN TRUE
        ELSE IF path = "/" THEN TRUE
        ELSE FALSE

\* check_internal_path that accepts a path matching none of its patterns.
check_internal_path_lenient(url, files) ==
    LET path == StripFrom(url, "#")
    IN  IF IsGuidePath(path) THEN GuideFile(path) \in files
        ELSE IF IsTutorialPath(path) THEN TutorialFile(path) \in files
        ELSE IF path = "/docs" \/ path = "/docs/" THEN TRUE
        ELSE IF path = "/" THEN TRUE
        ELSE TRUE

\* check_internal_path that matches the URL with its fragment.
check_internal_path_keeps_fragment(url, files) ==
    LET path == url
    IN  IF IsGuidePath(path) THEN GuideFile(path) \in files
        ELSE IF IsTutorialPath(path) THEN TutorialFile(path) \in files
        ELSE IF path = "/docs" \/ path = "/docs/" THEN TRUE
        ELSE IF path = "/" THEN TRUE
        ELSE FALSE

\* check_internal_path: TRUE is return 0.  files is the set of regular files
\* that exist under CONTENT_DIR when the test [[ -f ... ]] runs.
check_internal_path(url, files) ==
    LET path == StripFrom(url, "#")
    IN  IF IsGuidePath(path) THEN GuideFile(path) \in files
        ELSE IF IsTutorialPath(path) THEN TutorialFile(path) \in files
        ELSE IF path = "/docs" \/ path = "/docs/" THEN TRUE
        ELSE IF path = "/" THEN TRUE
        ELSE FALSE

\* What one curl run can do: its exit status and the %{http_code} it wrote.
\* exit 0: a response arrived; 7/"000": no connection (refused, DNS);
\* 28/"200": the time limit hit after the response status had arrived.
CurlOutcomes ==
    { [exit |-> 0,  http |-> "200"],
      [exit |-> 0,  http |-> "404"],
      [exit |-> 7,  http |-> "000"],
      [exit |-> 28, http |-> "200"] }

\* status=$(curl ... -w "%{http_code}" ... || echo "000")
CurlStatus(o) == IF o.exit = 0 THEN o.http ELSE o.http \o "000"

DigitVal(c) ==
    CASE c = "0" -> 0 [] c = "1" -> 1 [] c = "2" -> 2 [] c = "3" -> 3
      [] c = "4" -> 4 [] c = "5" -> 5 [] c = "6" -> 6 [] c = "7" -> 7
      [] c = "8" -> 8 [] c = "9" -> 9

\* bash arithmetic value of a digit string: a leading 0 makes it octal.
RECURSIVE BashNumFrom(_, _, _, _)
BashNumFrom(s, i, base, acc) ==
    IF i > Len(s) THEN acc
    ELSE BashNumFrom(s, i + 1, base, acc * base + DigitVal(CharAt(s, i)))

BashNum(s) ==
    IF Len(s) > 1 /\ CharAt(s, 1) = "0" THEN BashNumFrom(s, 2, 8, 0)
    ELSE BashNumFrom(s, 1, 10, 0)

\* check_external_url: [[ "$status" != "000" ]] && [[ "$status" -lt 400 ]]
check_external_url(o) ==
    LET status == CurlStatus(o)
    IN  status # "000" /\ BashNum(status) < 400

(***************************************************************************)
(* The broken-link side file and its readers                               *)
(***************************************************************************)

\* "${file#$ROOT_DIR/}" for a file p given relative to CONTENT_DIR.
Relative(p) == "src/content/" \o p

\* echo "${relative}|${line_num}|${url}|${link_type}" >> "$BROKEN_FILE"
RecordLine(relative, line_num, url, link_type) ==
    relative \o "|" \o line_num \o "|" \o url \o "|" \o link_type

\* IFS='|' read -r file line url type
ReadRecord(l) ==
    LET r1 == StripThrough(l, "|")
        r2 == StripThrough(r1, "|")
    IN  [file |-> StripFrom(l, "|"),
         line |-> StripFrom(r1, "|"),
         url  |-> StripFrom(r2, "|"),
         type |-> IF IndexFrom(r2, "|", 1) = 0 THEN "" ELSE StripThrough(r2, "|")]

Out(tag, text) == [tag |-> tag, text |-> text]

\* The grouped listing of main: a heading whenever the file field changes.
RECURSIVE Listing(_, _, _)
Listing(lines, i, current_file) ==
    IF i > Len(lines) THEN <<>>
    ELSE LET r == ReadRecord(lines[i])
             h == IF r.file # current_file THEN <<Out("heading", r.file)>> ELSE <<>>
         IN  h \o <<Out("item", "  Line " \o r.line \o ": " \o r.url \o " (" \o r.type \o ")")>>
               \o Listing(lines, i + 1, r.file)

\* The body of the prompt of fix_broken_links: "## file" whenever the file
\* field changes, and one "- Line ..." entry per record.
RECURSIVE PromptLines(_, _, _)
PromptLines(lines, i, current_file) ==
    IF i > Len(lines) THEN <<>>
    ELSE LET r == ReadRecord(lines[i])
             h == IF r.file # current_file THEN <<Out("heading", "## " \o r.file)>> ELSE <<>>
         IN  h \o <<Out("item", "- Line " \o r.line \o ": " \o r.url \o " (" \o r.type \o ")")>>
               \o PromptLines(lines, i + 1, r.file)

(***************************************************************************)
(* Inputs: command lines, content trees, collaborator behaviour            *)
(***************************************************************************)

\* Most files a content tree holds.
MaxFiles == 2

\* Most files that disappear from the content tree while a run is scanning.
MaxRemovals == 1

\* Command lines the script is started with.
ArgLists ==
    { <<>>,
      <<"--skip-external">>,
      <<"--fix">>,
      <<"--skip-external", "--fix">>,
      <<"--verbose", "--help">>,
      <<"--fix", "-h">>,
      <<"-h", "--fix">> }

\* Markdown files, relative to CONTENT_DIR.
Paths == { "guides/bayes/basics.md", "tutorials/start.md", "guides/a|b.md" }

\* Documents: a sequence of lines.
Docs ==
    { <<"# Title", "no link here, [not](a link",
        "[a](/docs/guides) [b](/docs/tutorials/) [c](/docs/guides/a/b/c) [d](/docs/guides/bayes/basics/) [p](tel:+1555)">>,
      <<"See [guide](/docs/guides/bayes/basics) and [missing](/docs/guides/bayes/nope).">>,
      <<"[t](/docs/tutorials/start)", "", "[t](/docs/tutorials/start#top) [h](/) [d](/docs) [e](/docs/)">>,
      <<"[e](https://ex.am/p) [m](mailto:a@b.c) [a](#top) [r](rel.md)",
        "[g](/docs/guides/bayes/basics#use) [p](/about|us)">> }

\* The files that links of Docs point to.
LinkTargets == { "guides/bayes/basics.md", "tutorials/start.md" }

\* Exit statuses of the claude command line: success, a failure of its own,
\* and 127 when the shell cannot find the command.
ClaudeStatuses == {0, 2, 127}

\* Most runs of the script made one after the other over the same tree.
MaxRuns == 2

\* URLs put together from a beginning and a rest: every prefix the chain of
\* process_file tests, the same in other case, near misses, and rests that
\* hold other prefixes and fragments.
UrlHeads == { "#", "mailto:", "tel:", "http://", "https://", "/",
              "HTTP://", "Https://", "MAILTO:", "Tel:", "http:/", "./", "" }
UrlRests == { "x", "#a", "/docs", "http://h", "mailto:m", "docs/#/" }
Urls == { h \o r : h \in UrlHeads, r \in UrlRests }

\* Documents for the extraction: no token at all; several tokens on one
\* line and an empty line before the next; a token whose URL holds the
\* beginning of another token.
ExtractDocs ==
    { <<"plain text", "", "[x] (y) [z]( [">>,
      <<"[a](/docs) mid [b](rel.md)[c](#top)", "", "x [d](/) y">>,
      <<"see [a](b[c](d) there">> }

\* One link to a URL of Urls on the second line, or a document of ExtractDocs.
UrlDocs == { <<"", "[t](" \o u \o ")">> : u \in Urls } \cup ExtractDocs

\* Sequences without repetition over S of length at most n.
RECURSIVE Orders(_, _)
Orders(S, n) ==
    IF n = 0 THEN {<<>>}
    ELSE {<<>>} \cup UNION { { <<p>> \o t : t \in Orders(S \ {p}, n - 1) } : p \in S }

\* Command lines test-all-tutorials.sh is started with.
TestAllArgs == { <<>>, <<"--fix">>, <<"--verbose">>, <<"x", "--fix">> }

\* TUTORIALS_DIR, and the entries it may hold in the order the shell sorts
\* them.
TUTORIALS_DIR == "src/content/tutorials"
DirEntries == << "getting-started.md", "index.md", "notes.txt", "persistence.md" >>

\* What test-tutorial.sh prints for a tutorial that exists: the report of
\* claude with either status, its own error message, nothing, and texts
\* that come near the words grep looks for.
TestOutputs ==
    { "TUTORIAL: t STATUS: PASS",
      "TUTORIAL: t STATUS: FAIL ISSUES: - the output differs",
      "Error: Classifier directory not found at /home/u/Sites/personal/classifier",
      "",
      "status: pass",
      "STATUS:  PASS" }

\* The state of test-all-tutorials.sh started with the command line a in a
\* tree whose tutorials directory holds the entries d.
TestAllState(a, d, at) ==
    [ argv |-> a, dir |-> d, pc |-> at,
      FIX_MODE |-> "", PASS_COUNT |-> 0, FAIL_COUNT |-> 0, FAILED_TUTORIALS |-> "",
      glob |-> <<>>, out |-> <<>>, tested |-> <<>> ]

Init ==
    /\ args \in ArgLists
    /\ argi = 1
    /\ FIX_MODE = FALSE
    /\ SKIP_EXTERNAL = FALSE
    /\ rootOk \in BOOLEAN
    /\ enum \in Orders(Paths, MaxFiles)
    /\ fs \in [Range(enum) -> Docs]
    /\ queue = <<>>
    /\ file = ""
    /\ grepOut = <<>>
    /\ has_errors = FALSE
    /\ curl = {}
    /\ BROKEN_FILE = <<>>
    /\ prompt = <<>>
    /\ tmpExists = TRUE
    /\ files_checked = 0
    /\ files_with_errors = 0
    /\ out = <<>>
    /\ pc = "parse"
    /\ exitCode = -1
    /\ occs = <<>>
    /\ removals = 0
    /\ claudeRuns = 0
    /\ claudeStatus = -1
    /\ linkNo = 0
    /\ previous = <<>>
    /\ unread = {}
    /\ testAll = TestAllState(<<>>, {}, "off")

(***************************************************************************)
(* Actions                                                                 *)
(***************************************************************************)

\* exit n with no EXIT trap set: the temporary file stays behind.
Exit_without_trap(n) ==
    /\ pc' = "done"
    /\ exitCode' = n
    /\ UNCHANGED <<tmpExists, BROKEN_FILE>>

\* exit n: the EXIT trap removes the temporary file.
Exit(n) ==
    /\ pc' = "done"
    /\ exitCode' = n
    /\ tmpExists' = FALSE
    /\ BROKEN_FILE' = <<>>

\* ParseArg without the -h|--help case.
ParseArg_help_ignored ==
    /\ pc = "parse"
    /\ argi <= Len(args)
    /\ argi' = argi + 1
    /\ FIX_MODE' = IF args[argi] = "--fix" THEN TRUE ELSE FIX_MODE
    /\ SKIP_EXTERNAL' = IF args[argi] = "--skip-external" THEN TRUE ELSE SKIP_EXTERNAL
    /\ UNCHANGED <<out, pc, exitCode, tmpExists, BROKEN_FILE>>
    /\ UNCHANGED <<testAll, unread, previous, prompt, args, rootOk, fs, enum, queue, file, grepOut, has_errors, curl,
                   files_checked, files_with_errors, occs, removals, claudeRuns,
                   claudeStatus, linkNo>>

\* One iteration of the argument loop.
ParseArg ==
    /\ pc = "parse"
    /\ argi <= Len(args)
    /\ argi' = argi + 1
    /\ FIX_MODE' = IF args[argi] = "--fix" THEN TRUE ELSE FIX_MODE
    /\ SKIP_EXTERNAL' = IF args[argi] = "--skip-external" THEN TRUE ELSE SKIP_EXTERNAL
    /\ IF args[argi] \in {"-h", "--help"}
       THEN /\ out' = out \o <<Out("usage", "Usage: check-links.sh [--fix] [--skip-external]")>>
            /\ Exit(0)
       ELSE UNCHANGED <<out, pc, exitCode, tmpExists, BROKEN_FILE>>
    /\ UNCHANGED <<testAll, unread, previous, prompt, args, rootOk, fs, enum, queue, file, grepOut, has_errors, curl,
                   files_checked, files_with_errors, occs, removals, claudeRuns,
                   claudeStatus, linkNo>>

\* main starts: the banner, and find lists the markdown files.  A root that
\* is missing or unreadable makes find print nothing (2>/dev/null).
StartMain ==
    /\ pc = "parse"
    /\ argi > Len(args)
    /\ out' = out \o <<Out("banner", "     Markdown Link Checker")>>
    /\ queue' = IF rootOk THEN SelectSeq(enum, LAMBDA p : p \in DOMAIN fs) ELSE <<>>
    /\ pc' = "loop"
    /\ UNCHANGED <<testAll, unread, previous, prompt, args, argi, FIX_MODE, SKIP_EXTERNAL, rootOk, fs, enum, file, grepOut,
                   has_errors, curl, BROKEN_FILE, tmpExists, files_checked,
                   files_with_errors, exitCode, occs, removals, claudeRuns,
                   claudeStatus, linkNo>>

\* main reads the next file name and process_file starts: grep reads the
\* file; a file that cannot be read yields no output (2>/dev/null || true).
NextFile ==
    /\ pc = "loop"
    /\ queue # <<>>
    /\ file' = Head(queue)
    /\ queue' = Tail(queue)
    /\ out' = out \o <<Out("checking", "Checking: " \o Relative(Head(queue)))>>
    /\ has_errors' = FALSE
    /\ grepOut' = IF Head(queue) \in DOMAIN fs THEN Grep(fs[Head(queue)]) ELSE <<>>
    /\ unread' = IF Head(queue) \in DOMAIN fs THEN unread ELSE unread \cup {Head(queue)}
    /\ linkNo' = 0
    /\ pc' = "link"
    /\ UNCHANGED <<testAll, previous, prompt, args, argi, FIX_MODE, SKIP_EXTERNAL, rootOk, fs, enum, curl,
                   BROKEN_FILE, tmpExists, files_checked, files_with_errors, exitCode,
                   occs, removals, claudeRuns, claudeStatus>>

\* Aggregate without the test of status: every checked link is recorded.
Aggregate_unconditional(status, line_num, url, link_type) ==
    /\ has_errors' = TRUE
    /\ out' = out \o <<Out("broken", "  x Line " \o line_num \o ": " \o url
                                       \o " (" \o link_type \o ")")>>
    /\ BROKEN_FILE' = Append(BROKEN_FILE,
                             RecordLine(Relative(file), line_num, url, link_type))

\* Aggregate that records a broken URL only the first time it is met.
Aggregate_once_per_url(status, line_num, url, link_type) ==
    IF /\ status = "broken"
       /\ \A k \in 1..Len(BROKEN_FILE) :
            LET tail == "|" \o url \o "|" \o link_type
                l    == BROKEN_FILE[k]
            IN  ~(Len(l) >= Len(tail) /\ SubSeq(l, Len(l) - Len(tail) + 1, Len(l)) = tail)
    THEN /\ has_errors' = TRUE
         /\ out' = out \o <<Out("broken", "  x Line " \o line_num \o ": " \o url
                                            \o " (" \o link_type \o ")")>>
         /\ BROKEN_FILE' = Append(BROKEN_FILE,
                                  RecordLine(Relative(file), line_num, url, link_type))
    ELSE UNCHANGED <<has_errors, out, BROKEN_FILE>>

\* The tail of the loop body of process_file: record a broken link.
Aggregate(status, line_num, url, link_type) ==
    IF status = "broken"
    THEN /\ has_errors' = TRUE
         /\ out' = out \o <<Out("broken", "  x Line " \o line_num \o ": " \o url
                                            \o " (" \o link_type \o ")")>>
         /\ BROKEN_FILE' = Append(BROKEN_FILE,
                                  RecordLine(Relative(file), line_num, url, link_type))
    ELSE UNCHANGED <<has_errors, out, BROKEN_FILE>>

\* The curl field of an occurrence for which curl was not run.
NoCurl == [exit |-> -1, http |-> ""]

\* What the loop decided about one link occurrence: the values of its
\* locals, the position of the occurrence in the scan, the files that
\* existed when it was checked, and what curl did if it was run.
Occ(fileNo, n, line_num, url, link_type, via, status, o) ==
    [file |-> file, fileNo |-> fileNo, linkNo |-> n, line |-> line_num, url |-> url,
     kind |-> link_type, via |-> via, status |-> status, files |-> DOMAIN fs,
     curl |-> o]

\* Route without the test of SKIP_EXTERNAL.
Route_ignores_skip(url, skip_external) ==
    IF StartsWith(url, "http://") \/ StartsWith(url, "https://") THEN "validator"
    ELSE IF StartsWith(url, "mailto:") \/ StartsWith(url, "tel:") \/ StartsWith(url, "#")
    THEN "continue"
    ELSE IF StartsWith(url, "/") THEN "resolver"
    ELSE "none"

\* Route that hands a URL without a known prefix to check_internal_path.
Route_checks_relative(url, skip_external) ==
    IF StartsWith(url, "http://") \/ StartsWith(url, "https://")
    THEN IF skip_external = FALSE THEN "validator" ELSE "continue"
    ELSE IF StartsWith(url, "mailto:") \/ StartsWith(url, "tel:") \/ StartsWith(url, "#")
    THEN "continue"
    ELSE "resolver"

\* Route with an http(s) test that ignores the case of the scheme.
Route_nocase(url, skip_external) ==
    IF \/ StartsWith(url, "http://") \/ StartsWith(url, "https://")
       \/ StartsWith(url, "HTTP://") \/ StartsWith(url, "HTTPS://")
    THEN IF skip_external = FALSE THEN "validator" ELSE "continue"
    ELSE IF StartsWith(url, "mailto:") \/ StartsWith(url, "tel:") \/ StartsWith(url, "#")
    THEN "continue"
    ELSE IF StartsWith(url, "/") THEN "resolver"
    ELSE "none"

\* The if / elif chain of process_file: where a URL goes.  "validator" is
\* check_external_url, "resolver" is check_internal_path, "continue" leaves
\* the iteration, "none" falls through with status ok.
Route(url, skip_external) ==
    IF StartsWith(url, "http://") \/ StartsWith(url, "https://")
    THEN IF skip_external = FALSE THEN "validator" ELSE "continue"
    ELSE IF StartsWith(url, "mailto:") \/ StartsWith(url, "tel:") \/ StartsWith(url, "#")
    THEN "continue"
    ELSE IF StartsWith(url, "/") THEN "resolver"
    ELSE "none"

\* link_type when the chain has been walked.
LinkType(url) ==
    IF StartsWith(url, "http://") \/ StartsWith(url, "https://") THEN "external"
    ELSE "internal"

\* AfterLaunch when curl is started in the background: the loop goes on.
AfterLaunch_background == "link"

\* The state of the loop after curl has been started: the shell waits for it.
AfterLaunch == "curl"

\* One iteration of the loop of process_file, up to the point where it
\* either finishes or has to wait for curl.
ProcessLink ==
    /\ pc = "link"
    /\ grepOut # <<>>
    /\ grepOut' = Tail(grepOut)
    /\ linkNo' = linkNo + 1
    /\ LET line     == Head(grepOut)
           line_num == StripFrom(line, ":")
           content  == StripThrough(line, ":")
           url      == SedUrl(content)
           route    == Route(url, SKIP_EXTERNAL)
           fileNo   == files_checked + 1
       IN  IF url = content \/ url = ""
           THEN UNCHANGED <<pc, curl, occs, has_errors, out, BROKEN_FILE>>
           ELSE IF route = "validator"
           THEN /\ curl' = curl \cup {[file |-> file, fileNo |-> fileNo, linkNo |-> linkNo',
                                       line |-> line_num, url |-> url]}
                /\ pc' = AfterLaunch
                /\ UNCHANGED <<occs, has_errors, out, BROKEN_FILE>>
           ELSE IF route = "continue"
           THEN /\ occs' = Append(occs, Occ(fileNo, linkNo', line_num, url, LinkType(url),
                                            "none", "ok", NoCurl))
                /\ UNCHANGED <<pc, curl, has_errors, out, BROKEN_FILE>>
           ELSE LET status == IF route = "resolver" /\ ~check_internal_path(url, DOMAIN fs)
                              THEN "broken" ELSE "ok"
                    via    == IF route = "resolver" THEN "resolver" ELSE "none"
                IN  /\ occs' = Append(occs, Occ(fileNo, linkNo', line_num, url,
                                                LinkType(url), via, status, NoCurl))
                    /\ Aggregate(status, line_num, url, LinkType(url))
                    /\ UNCHANGED <<pc, curl>>
    /\ UNCHANGED <<testAll, unread, previous, prompt, args, argi, FIX_MODE, SKIP_EXTERNAL, rootOk, fs, enum, queue, file,
                   tmpExists, files_checked, files_with_errors, exitCode, removals,
                   claudeRuns, claudeStatus>>

\* A curl in flight ends with outcome o and the iteration that waited for
\* it finishes.
CurlDone ==
    /\ \E c \in curl, o \in CurlOutcomes :
         LET status == IF check_external_url(o) THEN "ok" ELSE "broken"
         IN  /\ curl' = curl \ {c}
             /\ occs' = Append(occs, Occ(c.fileNo, c.linkNo, c.line, c.url,
                                         LinkType(c.url), "validator", status, o))
             /\ Aggregate(status, c.line, c.url, LinkType(c.url))
    /\ pc' = "link"
    /\ UNCHANGED <<testAll, unread, previous, prompt, args, argi, FIX_MODE, SKIP_EXTERNAL, rootOk, fs, enum, queue, file,
                   grepOut, tmpExists, files_checked, files_with_errors, exitCode,
                   removals, claudeRuns, claudeStatus, linkNo>>

\* FileDone that counts every file as a file with issues.
FileDone_counts_all ==
    /\ pc = "link"
    /\ grepOut = <<>>
    /\ files_with_errors' = files_with_errors + 1
    /\ files_checked' = files_checked + 1
    /\ pc' = "loop"
    /\ UNCHANGED <<testAll, unread, previous, prompt, args, argi, FIX_MODE, SKIP_EXTERNAL, rootOk, fs,
                   enum, queue, file, grepOut, has_errors, curl, BROKEN_FILE, tmpExists,
                   out, exitCode, occs, removals, claudeRuns, claudeStatus, linkNo>>

\* FileDone that prints the totals line after every file.
FileDone_prints_totals ==
    /\ pc = "link"
    /\ grepOut = <<>>
    /\ files_with_errors' = IF has_errors THEN files_with_errors + 1 ELSE files_with_errors
    /\ files_checked' = files_checked + 1
    /\ out' = out \o <<Out("totals", "Checked " \o ToString(files_checked') \o " files, "
                                       \o ToString(files_with_errors') \o " with issues.")>>
    /\ pc' = "loop"
    /\ UNCHANGED <<testAll, unread, previous, prompt, args, argi, FIX_MODE, SKIP_EXTERNAL, rootOk, fs,
                   enum, queue, file, grepOut, has_errors, curl, BROKEN_FILE, tmpExists,
                   exitCode, occs, removals, claudeRuns, claudeStatus, linkNo>>

\* process_file returns and main counts the file.
FileDone ==
    /\ pc = "link"
    /\ grepOut = <<>>
    /\ files_with_errors' = IF has_errors THEN files_with_errors + 1 ELSE files_with_errors
    /\ files_checked' = files_checked + 1
    /\ pc' = "loop"
    /\ UNCHANGED <<testAll, unread, previous, prompt, args, argi, FIX_MODE, SKIP_EXTERNAL, rootOk, fs, enum, queue, file,
                   grepOut, has_errors, curl, BROKEN_FILE, tmpExists, out, exitCode,
                   occs, removals, claudeRuns, claudeStatus, linkNo>>

\* Report that calls fix_broken_links whether or not --fix was given.
Report_fix_unasked ==
    /\ pc = "loop"
    /\ queue = <<>>
    /\ LET head == << Out("totals", "Checked " \o ToString(files_checked) \o " files, "
                                      \o ToString(files_with_errors) \o " with issues."),
                      Out("summary", "        LINK CHECK SUMMARY") >>
       IN  IF BROKEN_FILE = <<>>
           THEN /\ out' = out \o head \o <<Out("allvalid", "All links are valid!")>>
                /\ Exit(0)
           ELSE LET body == <<Out("found", "Found " \o ToString(Len(BROKEN_FILE))
                                              \o " broken link(s):")>>
                            \o Listing(BROKEN_FILE, 1, "")
                IN  /\ out' = out \o head \o body
                    /\ pc' = "fix"
                    /\ UNCHANGED <<exitCode, tmpExists, BROKEN_FILE>>
    /\ UNCHANGED <<testAll, unread, previous, prompt, args, argi, FIX_MODE, SKIP_EXTERNAL, rootOk, fs, enum, queue, file,
                   grepOut, has_errors, curl, files_checked, files_with_errors, occs,
                   removals, claudeRuns, claudeStatus, linkNo>>

\* The rest of main once find's output is exhausted: totals, summary, and
\* either the way out or the call of fix_broken_links.
Report ==
    /\ pc = "loop"
    /\ queue = <<>>
    /\ LET head == << Out("totals", "Checked " \o ToString(files_checked) \o " files, "
                                      \o ToString(files_with_errors) \o " with issues."),
                      Out("summary", "        LINK CHECK SUMMARY") >>
       IN  IF BROKEN_FILE = <<>>
           THEN /\ out' = out \o head \o <<Out("allvalid", "All links are valid!")>>
                /\ Exit(0)
           ELSE LET body == <<Out("found", "Found " \o ToString(Len(BROKEN_FILE))
                                              \o " broken link(s):")>>
                            \o Listing(BROKEN_FILE, 1, "")
                IN  IF FIX_MODE = TRUE
                    THEN /\ out' = out \o head \o body
                         /\ pc' = "fix"
                         /\ UNCHANGED <<exitCode, tmpExists, BROKEN_FILE>>
                    ELSE /\ out' = out \o head \o body
                                     \o <<Out("hint", "Run with --fix to attempt automatic repair.")>>
                         /\ Exit(1)
    /\ UNCHANGED <<testAll, unread, previous, prompt, args, argi, FIX_MODE, SKIP_EXTERNAL, rootOk, fs, enum, queue, file,
                   grepOut, has_errors, curl, files_checked, files_with_errors, occs,
                   removals, claudeRuns, claudeStatus, linkNo>>

\* fix_broken_links: the prompt is built from the side file and piped to
\* claude, which ends with status st.  Under set -e and pipefail a failing
\* pipeline ends the script with st; otherwise the function returns and main
\* returns 1.
fix_broken_links ==
    /\ pc = "fix"
    /\ IF BROKEN_FILE = <<>>
       THEN /\ Exit(1)
            /\ UNCHANGED <<out, prompt, claudeRuns, claudeStatus>>
       ELSE \E st \in ClaudeStatuses :
              /\ out' = out \o <<Out("fixing", "Fixing broken links with Claude...")>>
              /\ prompt' = <<Out("intro", "The following broken links were found:")>>
                              \o PromptLines(BROKEN_FILE, 1, "")
                              \o <<Out("howto", "For each broken link:")>>
              /\ claudeRuns' = claudeRuns + 1
              /\ claudeStatus' = st
              /\ Exit(IF st # 0 THEN st ELSE 1)
    /\ UNCHANGED <<testAll, unread, previous, args, argi, FIX_MODE, SKIP_EXTERNAL, rootOk, fs, enum, queue, file,
                   grepOut, has_errors, curl, files_checked, files_with_errors, occs,
                   removals, linkNo>>

\* The next step of the scan looks at the file system: main is about to
\* hand a file to grep, or process_file is about to call check_internal_path
\* with a path for which it tests a file.
ReadsFileSystem ==
    \/ pc = "loop" /\ queue # <<>>
    \/ /\ pc = "link"
       /\ grepOut # <<>>
       /\ LET url  == SedUrl(StripThrough(Head(grepOut), ":"))
              path == StripFrom(url, "#")
          IN  /\ Route(url, SKIP_EXTERNAL) = "resolver"
              /\ IsGuidePath(path) \/ IsTutorialPath(path)

\* Somebody else removes a file of the content tree while the scan runs.  A
\* removal shows only in the next look at the file system, so it is taken
\* right before one.
RemoveFile ==
    /\ ReadsFileSystem
    /\ removals < MaxRemovals
    /\ \E p \in DOMAIN fs \cap LinkTargets : fs' = [q \in DOMAIN fs \ {p} |-> fs[q]]
    /\ removals' = removals + 1
    /\ UNCHANGED <<testAll, unread, previous, prompt, args, argi, FIX_MODE, SKIP_EXTERNAL, rootOk, enum, queue, file,
                   grepOut, has_errors, curl, BROKEN_FILE, tmpExists, files_checked,
                   files_with_errors, out, pc, exitCode, occs, claudeRuns,
                   claudeStatus, linkNo>>

\* What a run reports: the counters of main and the broken links it
\* recorded, in order.
ScanReport ==
    [filesScanned    |-> files_checked,
     filesWithErrors |-> files_with_errors,
     brokenLinks     |-> [i \in 1..Len(SelectSeq(occs, LAMBDA o : o.status = "broken")) |->
                            LET b == SelectSeq(occs, LAMBDA o : o.status = "broken")[i]
                            IN  [file |-> Relative(b.file), line |-> b.line,
                                 url |-> b.url, kind |-> b.kind]]]

\* A run with external checks disabled has ended and the script is started
\* again with the same command line over the same content tree: new
\* process, new temporary file.
Rerun ==
    /\ pc = "done"
    /\ SKIP_EXTERNAL = TRUE
    /\ Len(previous) + 1 < MaxRuns
    /\ previous' = Append(previous, ScanReport)
    /\ argi' = 1
    /\ FIX_MODE' = FALSE
    /\ SKIP_EXTERNAL' = FALSE
    /\ queue' = <<>>
    /\ file' = ""
    /\ grepOut' = <<>>
    /\ has_errors' = FALSE
    /\ curl' = {}
    /\ BROKEN_FILE' = <<>>
    /\ prompt' = <<>>
    /\ tmpExists' = TRUE
    /\ files_checked' = 0
    /\ files_with_errors' = 0
    /\ out' = <<>>
    /\ pc' = "parse"
    /\ exitCode' = -1
    /\ occs' = <<>>
    /\ claudeRuns' = 0
    /\ claudeStatus' = -1
    /\ linkNo' = 0
    /\ unread' = {}
    /\ UNCHANGED <<testAll, args, rootOk, fs, enum, removals>>

\* SIGINT reaches the script and the command it waits for while the scan is
\* under way.  The script sets no trap for it: the shell runs the EXIT trap
\* and dies of the signal (status 130), and nothing more is printed.
Interrupt ==
    /\ pc \in {"loop", "link", "curl"}
    /\ curl' = {}
    /\ Exit(130)
    /\ UNCHANGED <<testAll, unread, previous, prompt, args, argi, FIX_MODE, SKIP_EXTERNAL, rootOk, fs, enum,
                   queue, file, grepOut, has_errors, files_checked, files_with_errors,
                   out, occs, removals, claudeRuns, claudeStatus, linkNo>>

\* A content tree of one file that holds a document of UrlDocs.
InitUrl ==
    /\ args \in {<<>>, <<"--skip-external">>}
    /\ argi = 1
    /\ FIX_MODE = FALSE
    /\ SKIP_EXTERNAL = FALSE
    /\ rootOk = TRUE
    /\ enum = <<"guides/bayes/basics.md">>
    /\ \E d \in UrlDocs : fs = [p \in {"guides/bayes/basics.md"} |-> d]
    /\ queue = <<>>
    /\ file = ""
    /\ grepOut = <<>>
    /\ has_errors = FALSE
    /\ curl = {}
    /\ BROKEN_FILE = <<>>
    /\ prompt = <<>>
    /\ tmpExists = TRUE
    /\ files_checked = 0
    /\ files_with_errors = 0
    /\ out = <<>>
    /\ pc = "parse"
    /\ exitCode = -1
    /\ occs = <<>>
    /\ removals = 0
    /\ claudeRuns = 0
    /\ claudeStatus = -1
    /\ linkNo = 0
    /\ previous = <<>>
    /\ unread = {}
    /\ testAll = TestAllState(<<>>, {}, "off")

Next ==
    \/ ParseArg
    \/ StartMain
    \/ NextFile
    \/ ProcessLink
    \/ CurlDone
    \/ FileDone
    \/ Report
    \/ fix_broken_links

\* A run over a content tree that nobody else touches.
Spec == Init /\ [][Next]_vars

\* A run of check-links.sh --skip-external over a content tree that loses
\* link targets while the scan is under way.
InitEnv == Init /\ args = <<"--skip-external">>

NextEnv ==
    \/ ParseArg
    \/ StartMain
    \/ NextFile
    \/ ProcessLink
    \/ FileDone
    \/ Report
    \/ RemoveFile

SpecEnv == InitEnv /\ [][NextEnv]_vars

\* Runs of the script with or without --skip-external over a content tree
\* that nobody touches, those with --skip-external repeated.
InitTwice == Init /\ args \in {<<>>, <<"--skip-external">>}

NextTwice ==
    \/ ParseArg
    \/ StartMain
    \/ NextFile
    \/ ProcessLink
    \/ CurlDone
    \/ FileDone
    \/ Report
    \/ Rerun

SpecTwice == InitTwice /\ [][NextTwice]_vars

\* A run with or without --skip-external that may be interrupted during the
\* scan.
InitInt == Init /\ args \in {<<>>, <<"--skip-external">>}

NextInt ==
    \/ ParseArg
    \/ StartMain
    \/ NextFile
    \/ ProcessLink
    \/ CurlDone
    \/ FileDone
    \/ Report
    \/ Interrupt

SpecInt == InitInt /\ [][NextInt]_vars

\* A run with or without --skip-external over a tree of one file.
NextUrl ==
    \/ ParseArg
    \/ StartMain
    \/ NextFile
    \/ ProcessLink
    \/ CurlDone
    \/ FileDone
    \/ Report

SpecUrl == InitUrl /\ [][NextUrl]_vars

\* Runs with and without --fix over the trees of two files.
InitLive ==
    /\ Init
    /\ args \in {<<>>, <<"--fix">>}
    /\ rootOk
    /\ enum = <<"tutorials/start.md", "guides/bayes/basics.md">>

\* A run in which the shell keeps taking its own steps and every curl ends
\* (--max-time 10).  The run of claude has no time limit and gets no
\* fairness.  For NextFile, ProcessLink and Report weak fairness is written
\* out with the guard of the action in place of ENABLED: every other conjunct
\* of these actions is an assignment, so a step is possible exactly when the
\* guard holds.
SpecLive ==
    /\ InitLive /\ [][Next]_vars
    /\ WF_vars(ParseArg) /\ WF_vars(StartMain)
    /\ ([]<>~(pc = "loop" /\ queue # <<>>) \/ []<><<NextFile>>_vars)
    /\ ([]<>~(pc = "link" /\ grepOut # <<>>) \/ []<><<ProcessLink>>_vars)
    /\ WF_vars(CurlDone) /\ WF_vars(FileDone)
    /\ ([]<>~(pc = "loop" /\ queue = <<>>) \/ []<><<Report>>_vars)

(***************************************************************************)
(* scripts/test-all-tutorials.sh                                           *)
(***************************************************************************)

checkLinksVars ==
    << args, argi, FIX_MODE, SKIP_EXTERNAL, rootOk, fs, enum, queue, file,
       grepOut, has_errors, curl, BROKEN_FILE, prompt, tmpExists,
       files_checked, files_with_errors, out, pc, exitCode, occs, removals,
       claudeRuns, claudeStatus, linkNo, previous, unread >>

HasSuffix(s, suffix) ==
    Len(s) >= Len(suffix) /\ SubSeq(s, Len(s) - Len(suffix) + 1, Len(s)) = suffix

\* basename path suffix: what follows the last "/", without the suffix
\* unless that is the whole name.
Basename(path, suffix) ==
    LET S == {j \in 1..Len(path) : CharAt(path, j) = "/"}
        b == IF S = {} THEN path
             ELSE SubSeq(path, (CHOOSE j \in S : \A k \in S : k <= j) + 1, Len(path))
    IN  IF b # suffix /\ HasSuffix(b, suffix)
        THEN SubSeq(b, 1, Len(b) - Len(suffix))
        ELSE b

\* "$TUTORIALS_DIR"/*.md: the entries that end in .md, in sorted order; the
\* pattern itself when nothing matches (nullglob is not set).
Glob(d) ==
    LET ms == SelectSeq(DirEntries, LAMBDA e : e \in d /\ HasSuffix(e, ".md"))
    IN  IF ms = <<>> THEN << TUTORIALS_DIR \o "/*.md" >>
        ELSE [i \in 1..Len(ms) |-> TUTORIALS_DIR \o "/" \o ms[i]]

\* What test-tutorial.sh may print for a path: its "File not found" message
\* when [ ! -f "$TUTORIAL_PATH" ], otherwise one of TestOutputs.
TestTutorial(path, d) ==
    IF \E e \in d : path = TUTORIALS_DIR \o "/" \o e
    THEN TestOutputs
    ELSE { "Error: File not found: " \o path }

\* grep -q pat on the echoed text.
Contains(s, pat) ==
    \E i \in 1..(Len(s) - Len(pat) + 1) : SubSeq(s, i, i + Len(pat) - 1) = pat

\* Lines 6-19: FIX_MODE="$1", the banner, the counters, and the expansion
\* of the pattern of the for loop.
TestAllStart ==
    /\ testAll.pc = "start"
    /\ testAll' = [testAll EXCEPT
                     !.FIX_MODE = IF Len(testAll.argv) >= 1 THEN testAll.argv[1] ELSE "",
                     !.PASS_COUNT = 0,
                     !.FAIL_COUNT = 0,
                     !.FAILED_TUTORIALS = "",
                     !.out = <<Out("banner", "Testing all tutorials in: " \o TUTORIALS_DIR)>>,
                     !.glob = Glob(testAll.dir),
                     !.pc = "loop"]
    /\ UNCHANGED checkLinksVars

\* Lines 19-48: one pass through the loop.  index is skipped; with --fix
\* test-tutorial.sh writes to the terminal and nothing is counted; otherwise
\* its output is captured, echoed and searched for "STATUS: PASS".
TutorialLoop ==
    /\ testAll.pc = "loop"
    /\ testAll.glob # <<>>
    /\ LET tutorial == Head(testAll.glob)
           name     == Basename(tutorial, ".md")
           testing  == <<Out("testing", "Testing: " \o name)>>
       IN  IF name = "index"
           THEN testAll' = [testAll EXCEPT !.glob = Tail(@)]
           ELSE \E OUTPUT \in TestTutorial(tutorial, testAll.dir) :
                  IF testAll.FIX_MODE = "--fix"
                  THEN testAll' = [testAll EXCEPT
                                     !.glob = Tail(@),
                                     !.out = @ \o testing \o <<Out("output", OUTPUT)>>,
                                     !.tested = Append(@, [name |-> name, fix |-> TRUE,
                                                           OUTPUT |-> OUTPUT])]
                  ELSE IF Contains(OUTPUT, "STATUS: PASS")
                  THEN testAll' = [testAll EXCEPT
                                     !.glob = Tail(@),
                                     !.PASS_COUNT = @ + 1,
                                     !.out = @ \o testing \o <<Out("output", OUTPUT),
                                                              Out("passed", name \o ": PASSED")>>,
                                     !.tested = Append(@, [name |-> name, fix |-> FALSE,
                                                           OUTPUT |-> OUTPUT])]
                  ELSE testAll' = [testAll EXCEPT
                                     !.glob = Tail(@),
                                     !.FAIL_COUNT = @ + 1,
                                     !.FAILED_TUTORIALS = @ \o " " \o name,
                                     !.out = @ \o testing \o <<Out("output", OUTPUT),
                                                              Out("failed", name \o ": FAILED")>>,
                                     !.tested = Append(@, [name |-> name, fix |-> FALSE,
                                                           OUTPUT |-> OUTPUT])]
    /\ UNCHANGED checkLinksVars

\* Lines 50-64: the summary, unless FIX_MODE is --fix.
TestAllSummary ==
    /\ testAll.pc = "loop"
    /\ testAll.glob = <<>>
    /\ LET counts == << Out("summary", "SUMMARY"),
                        Out("passedCount", "Passed: " \o ToString(testAll.PASS_COUNT)),
                        Out("failedCount", "Failed: " \o ToString(testAll.FAIL_COUNT)) >>
           failed == IF testAll.FAILED_TUTORIALS # ""
                     THEN << Out("failedList", "Failed tutorials:" \o testAll.FAILED_TUTORIALS),
                             Out("hint", "Run with --fix to automatically fix failed tutorials:") >>
                     ELSE <<>>
       IN  testAll' = [testAll EXCEPT
                         !.out = IF testAll.FIX_MODE # "--fix" THEN @ \o counts \o failed ELSE @,
                         !.pc = "done"]
    /\ UNCHANGED checkLinksVars

\* test-all-tutorials.sh started with a command line of TestAllArgs in a
\* tree whose tutorials directory holds any of DirEntries; check-links.sh
\* is not run.
InitTestAll ==
    /\ args = <<>>
    /\ argi = 1
    /\ FIX_MODE = FALSE
    /\ SKIP_EXTERNAL = FALSE
    /\ rootOk = TRUE
    /\ enum = <<>>
    /\ fs = [p \in {} |-> <<>>]
    /\ queue = <<>>
    /\ file = ""
    /\ grepOut = <<>>
    /\ has_errors = FALSE
    /\ curl = {}
    /\ BROKEN_FILE = <<>>
    /\ prompt = <<>>
    /\ tmpExists = FALSE
    /\ files_checked = 0
    /\ files_with_errors = 0
    /\ out = <<>>
    /\ pc = "done"
    /\ exitCode = -1
    /\ occs = <<>>
    /\ removals = 0
    /\ claudeRuns = 0
    /\ claudeStatus = -1
    /\ linkNo = 0
    /\ previous = <<>>
    /\ unread = {}
    /\ \E a \in TestAllArgs, d \in SUBSET Range(DirEntries) :
         testAll = TestAllState(a, d, "start")

NextTestAll ==
    \/ TestAllStart
    \/ TutorialLoop
    \/ TestAllSummary

SpecTestAll == InitTestAll /\ [][NextTestAll]_vars

(***************************************************************************)
(* Vocabulary of the properties                                            *)
(***************************************************************************)

\* Some line of standard output carries the tag.
Has(tag) == \E i \in 1..Len(out) : out[i].tag = tag

\* The occurrences decided as broken, in the order they were decided.
BrokenOccs == SelectSeq(occs, LAMBDA o : o.status = "broken")

\* Occurrence a was discovered before occurrence b: earlier file, or the
\* same file and earlier in grep's output.
DiscoveredBefore(a, b) ==
    a.fileNo < b.fileNo \/ (a.fileNo = b.fileNo /\ a.linkNo < b.linkNo)

EndsWith(s, suffix) ==
    Len(s) >= Len(suffix) /\ SubSeq(s, Len(s) - Len(suffix) + 1, Len(s)) = suffix

IsExternalUrl(url) == StartsWith(url, "http://") \/ StartsWith(url, "https://")

\* The pieces of s between occurrences of character c.
RECURSIVE Segments(_, _)
Segments(s, c) ==
    LET j == IndexFrom(s, c, 1)
    IN  IF j = 0 THEN <<s>>
        ELSE <<SubSeq(s, 1, j - 1)>> \o Segments(SubSeq(s, j + 1, Len(s)), c)

\* The URL without its fragment, cut into path segments.
PathSegments(url) == Segments(StripFrom(url, "#"), "/")

\* /docs/guides/{category}/{slug}
HasGuideShape(url) ==
    LET g == PathSegments(url)
    IN  Len(g) = 5 /\ g[1] = "" /\ g[2] = "docs" /\ g[3] = "guides" /\ g[4] # "" /\ g[5] # ""

GuideTarget(url) ==
    LET g == PathSegments(url) IN "guides/" \o g[4] \o "/" \o g[5] \o ".md"

\* /docs/tutorials/{slug}
HasTutorialShape(url) ==
    LET g == PathSegments(url)
    IN  Len(g) = 4 /\ g[1] = "" /\ g[2] = "docs" /\ g[3] = "tutorials" /\ g[4] # ""

TutorialTarget(url) ==
    LET g == PathSegments(url) IN "tutorials/" \o g[4] \o ".md"

\* The routes that no file backs.
SyntheticRoutes == {"/", "/docs", "/docs/"}

\* An internal path of none of the known route shapes.
HasNoRouteShape(url) ==
    /\ StartsWith(url, "/")
    /\ ~HasGuideShape(url)
    /\ ~HasTutorialShape(url)
    /\ StripFrom(url, "#") \notin SyntheticRoutes

\* A URL that is out of scope: an anchor, a contact scheme, or anything that
\* is neither http(s) nor rooted at /.
NotCheckable(url) ==
    \/ StartsWith(url, "#")
    \/ StartsWith(url, "mailto:")
    \/ StartsWith(url, "tel:")
    \/ ~(IsExternalUrl(url) \/ StartsWith(url, "/"))

\* The status code of a response, read as a decimal number.
StatusCode(o) == BashNumFrom(o.http, 1, 10, 0)

\* curl obtained a final response: it ended without an error of its own.
ResponseReceived(o) == o.exit = 0

\* The lines of the per-file progress and of the final summary.
ProgressTags == {"checking", "broken"}
SummaryTags == {"summary", "allvalid", "found", "heading", "item"}

\* The headings and entries of a listing.
Entries(lines) == SelectSeq(lines, LAMBDA e : e.tag \in {"heading", "item"})

\* The listing that the broken occurrences bs call for: each one once, under
\* the heading of its own file, with its line, URL and kind.
RECURSIVE Faithful(_, _, _, _, _)
Faithful(bs, i, current, headingMark, itemMark) ==
    IF i > Len(bs) THEN <<>>
    ELSE LET o == bs[i]
             h == IF Relative(o.file) # current
                  THEN <<Out("heading", headingMark \o Relative(o.file))>> ELSE <<>>
         IN  h \o <<Out("item", itemMark \o "Line " \o o.line \o ": " \o o.url
                                          \o " (" \o o.kind \o ")")>>
               \o Faithful(bs, i + 1, Relative(o.file), headingMark, itemMark)

\* The command line holds the help flag.
HelpRequested == \E i \in 1..Len(args) : args[i] \in {"-h", "--help"}

\* The kind of a URL by the ordered rule list: # first, then mailto: and
\* tel:, then http:// and https://, then /, and anything else is excluded.
KindByRules(url) ==
    IF StartsWith(url, "#") THEN "Anchor"
    ELSE IF StartsWith(url, "mailto:") \/ StartsWith(url, "tel:") THEN "ContactScheme"
    ELSE IF StartsWith(url, "http://") \/ StartsWith(url, "https://") THEN "External"
    ELSE IF StartsWith(url, "/") THEN "Internal"
    ELSE "Excluded"

\* The URL of a link token [text](url): text holds no ], so the URL starts
\* after the first ]( and ends before the closing ).
UrlOfToken(token) == SubSeq(token, IndexFrom(token, "]", 1) + 2, Len(token) - 1)

\* The link tokens of a document from line n on, each with the number of its
\* line and its URL, line by line and left to right.
RECURSIVE TokensFrom(_, _)
TokensFrom(doc, n) ==
    IF n > Len(doc) THEN <<>>
    ELSE LET ms == GrepLineFrom(doc[n], 1)
         IN  [i \in 1..Len(ms) |-> [line |-> n, url |-> UrlOfToken(ms[i])]]
               \o TokensFrom(doc, n + 1)

\* The occurrences decided so far for the file that is being scanned.
OccsOfCurrentFile == SelectSeq(occs, LAMBDA o : o.fileNo = files_checked + 1)

\* The URL has a fragment.
HasFragment(url) == IndexFrom(url, "#", 1) # 0

\* The files find lists for a run over a tree that nobody touches.
Enumerated == IF rootOk THEN Len(enum) ELSE 0

\* The files, by their position in the scan, that have a broken occurrence.
FilesWithRecords == { BrokenOccs[i].fileNo : i \in 1..Len(BrokenOccs) }

\* main or process_file is at work on the files.
Scanning == pc \in {"loop", "link", "curl"}

\* How far the run has come: 0 before main (Idle), 1 in the loop over the
\* files (Scanning), 2 with the loop over and the aggregate complete
\* (Aggregating), 3 with the report printed and fix_broken_links about to
\* run (Reporting, before Dispatching), 4 at the exit (Idle).
PhaseRank ==
    CASE pc = "parse" -> 0
      [] pc \in {"link", "curl"} \/ (pc = "loop" /\ queue # <<>>) -> 1
      [] pc = "loop" /\ queue = <<>> -> 2
      [] pc = "fix" -> 3
      [] pc = "done" -> 4

\* How many link tokens of the files enum[k..] have the URL u.
RECURSIVE TokenCount(_, _)
TokenCount(u, k) ==
    IF k > Len(enum) THEN 0
    ELSE Len(SelectSeq(TokensFrom(fs[enum[k]], 1), LAMBDA t : t.url = u))
           + TokenCount(u, k + 1)

\* The URLs of the link tokens of the tree.
TokenUrls ==
    UNION { { TokensFrom(fs[p], 1)[i].url : i \in 1..Len(TokensFrom(fs[p], 1)) } : p \in DOMAIN fs }

\* The URL is one that this run checks.
ToBeChecked(u) ==
    \/ KindByRules(u) = "Internal"
    \/ KindByRules(u) = "External" /\ SKIP_EXTERNAL = FALSE

\* The entries of occs for URL u that were decided by a check, and those
\* among them that were decided as broken.
ChecksOf(u) ==
    { i \in 1..Len(occs) : occs[i].url = u /\ occs[i].via \in {"resolver", "validator"} }
BrokenChecksOf(u) == { i \in ChecksOf(u) : occs[i].status = "broken" }

\* The records of the side file for URL u.
RecordsOf(u) ==
    { k \in 1..Len(BROKEN_FILE) :
        EndsWith(BROKEN_FILE[k], "|" \o u \o "|" \o LinkType(u)) }

\* The scan is over and the report has not started.
ScanFinished == pc = "loop" /\ queue = <<>>

(***************************************************************************)
(* Properties                                                              *)
(***************************************************************************)

\* C1: a run that completes the scan exits with 0 if and only if no broken
\* link was recorded (files_with_errors = 0) and with 1 if and only if at
\* least one was (files_with_errors >= 1), with or without --fix.
C1_ExitCodeReflectsScan ==
    (pc = "done" /\ Has("totals")) =>
        /\ exitCode = 0 <=> files_with_errors = 0
        /\ exitCode = 1 <=> files_with_errors >= 1

\* C2: when the repair collaborator fails, the run still exits with the
\* scan's own exit code 1; the collaborator's status is never the exit code.
C2_DispatchFailureKeepsExitCode ==
    (pc = "done" /\ claudeStatus \notin {-1, 0}) => exitCode = 1

\* C3: when the content root cannot be enumerated the run never reports
\* zero files checked with all links valid and exits 0.
C3_EnumerationFailureIsFatal ==
    ~rootOk => ~(pc = "done" /\ exitCode = 0 /\ files_checked = 0 /\ Has("allvalid"))

\* C4: the side file holds exactly one record for each occurrence decided as
\* broken, in the order they were decided, and none for an occurrence that
\* was ok or excluded.
C4_OneRecordPerBrokenLink ==
    tmpExists =>
        /\ Len(BROKEN_FILE) = Len(BrokenOccs)
        /\ \A i \in 1..Len(BrokenOccs) :
             BROKEN_FILE[i] = RecordLine(Relative(BrokenOccs[i].file), BrokenOccs[i].line,
                                         BrokenOccs[i].url, BrokenOccs[i].kind)

\* C4 witness: the document of the example has been scanned: its first link
\* resolved, and the only record is the one for /docs/guides/bayes/nope.
C4_Witness ==
    /\ ScanFinished
    /\ \E i \in 1..Len(occs) :
         occs[i].url = "/docs/guides/bayes/basics" /\ occs[i].line = "1" /\ occs[i].status = "ok"
    /\ BROKEN_FILE = <<"src/content/guides/bayes/basics.md|1|/docs/guides/bayes/nope|internal">>

\* C5: the records are in discovery order (file enumeration order, then
\* position in the file), and the grouped summary prints the heading of each
\* file that has records exactly once.
C5_DiscoveryOrderAndHeadings ==
    /\ \A i, j \in 1..Len(BrokenOccs) :
         i < j => DiscoveredBefore(BrokenOccs[i], BrokenOccs[j])
    /\ Has("found") =>
         \A f \in {BrokenOccs[i].file : i \in 1..Len(BrokenOccs)} :
            Cardinality({k \in 1..Len(out) : out[k] = Out("heading", Relative(f))}) = 1

\* C6: external validations run one at a time and in discovery order: at
\* most one request is in flight, everything decided so far was discovered
\* before the request in flight, and the validated occurrences appear in
\* discovery order.
C6_SequentialValidation ==
    /\ Cardinality(curl) <= 1
    /\ \A c \in curl : \A i \in 1..Len(occs) : DiscoveredBefore(occs[i], c)
    /\ \A i, j \in 1..Len(occs) :
         (i < j /\ occs[i].via = "validator" /\ occs[j].via = "validator")
            => DiscoveredBefore(occs[i], occs[j])

\* C6 witness: two external links have been validated and both recorded.
C6_Witness ==
    /\ \E i, j \in 1..Len(occs) :
         /\ i < j
         /\ occs[i].via = "validator" /\ occs[i].status = "broken"
         /\ occs[j].via = "validator" /\ occs[j].status = "broken"
    /\ Len(BROKEN_FILE) >= 2

\* C7: with --skip-external no external link reaches check_external_url and
\* none is recorded: every record is of kind internal.
C7_SkipExternal ==
    SKIP_EXTERNAL = TRUE =>
        /\ curl = {}
        /\ \A i \in 1..Len(occs) :
             /\ occs[i].via # "validator"
             /\ IsExternalUrl(occs[i].url) => occs[i].status = "ok"
             /\ occs[i].status = "broken" => occs[i].kind = "internal"
        /\ \A k \in 1..Len(BROKEN_FILE) : EndsWith(BROKEN_FILE[k], "|internal")

\* C7 witness: a skip-external scan has met an external link and has
\* recorded a broken internal one.
C7_Witness ==
    /\ SKIP_EXTERNAL = TRUE
    /\ ScanFinished
    /\ \E i \in 1..Len(occs) : IsExternalUrl(occs[i].url)
    /\ BROKEN_FILE # <<>>

\* C8: a link of the shape /docs/guides/{category}/{slug} resolves to ok if
\* and only if guides/{category}/{slug}.md exists when it is checked.  (occs
\* only grows, so the latest entry of every state covers every entry.)
C8_GuideResolution ==
    occs # <<>> =>
        LET o == occs[Len(occs)]
        IN  HasGuideShape(o.url) =>
                /\ o.via = "resolver"
                /\ o.status = "ok" <=> GuideTarget(o.url) \in o.files

\* C8 witness: one guide link resolved because its file was there and one
\* was broken because its file was not.
C8_Witness ==
    \E i, j \in 1..Len(occs) :
        /\ HasGuideShape(occs[i].url) /\ occs[i].status = "ok"
        /\ GuideTarget(occs[i].url) \in occs[i].files
        /\ HasGuideShape(occs[j].url) /\ occs[j].status = "broken"
        /\ GuideTarget(occs[j].url) \notin occs[j].files

\* C9: a link of the shape /docs/tutorials/{slug} resolves to ok if and only
\* if tutorials/{slug}.md exists at the moment of the check; an earlier
\* result for the same URL is not reused.  (Stated of the latest entry of
\* occs in every state, which covers every entry.)
C9_TutorialResolution ==
    occs # <<>> =>
        LET o == occs[Len(occs)]
        IN  HasTutorialShape(o.url) =>
                /\ o.via = "resolver"
                /\ o.status = "ok" <=> TutorialTarget(o.url) \in o.files

\* C9 witness: the same tutorial URL was checked twice, the file was removed
\* in between, and the second result is broken.
C9_Witness ==
    \E i, j \in 1..Len(occs) :
        /\ i < j
        /\ occs[i].url = occs[j].url
        /\ HasTutorialShape(occs[i].url)
        /\ TutorialTarget(occs[i].url) \in occs[i].files /\ occs[i].status = "ok"
        /\ TutorialTarget(occs[j].url) \notin occs[j].files /\ occs[j].status = "broken"

\* C10: links to /, /docs and /docs/ resolve to ok whatever files exist, and
\* no record is written for them.
C10_SyntheticRoutes ==
    \A i \in 1..Len(occs) :
        StripFrom(occs[i].url, "#") \in SyntheticRoutes =>
            /\ occs[i].via = "resolver"
            /\ occs[i].status = "ok"
            /\ \A k \in 1..Len(BROKEN_FILE) :
                 BROKEN_FILE[k] # RecordLine(Relative(occs[i].file), occs[i].line,
                                             occs[i].url, occs[i].kind)

\* C10 witness: all three routes resolved while the content tree was empty.
C10_Witness ==
    \A r \in SyntheticRoutes :
        \E i \in 1..Len(occs) :
            occs[i].url = r /\ occs[i].files = {} /\ occs[i].status = "ok"

\* C11: an internal path of none of the known route shapes is decided by the
\* resolver as broken whatever files exist, its record is appended as a
\* broken internal link, and the run does not end there: a run that has
\* ended has gone through the rest of the scan and printed its report.  (Stated of
\* the latest entry of occs in every state, which covers every entry.)
C11_UnknownShapeIsBroken ==
    occs # <<>> =>
        LET o == occs[Len(occs)]
        IN  HasNoRouteShape(o.url) =>
                /\ o.via = "resolver"
                /\ o.status = "broken"
                /\ o.kind = "internal"
                /\ tmpExists =>
                      /\ BROKEN_FILE # <<>>
                      /\ BROKEN_FILE[Len(BROKEN_FILE)] =
                            RecordLine(Relative(o.file), o.line, o.url, "internal")
                /\ pc = "done" => (queue = <<>> /\ grepOut = <<>> /\ Has("totals"))

\* C11 witness: the scan is over, the five shapeless paths of the documents
\* were all decided as broken, the trailing-slash guide path while the guide's
\* file existed, and links after them in the same file were still decided.
C11_Witness ==
    /\ ScanFinished
    /\ \A u \in {"/docs/guides", "/docs/tutorials/", "/docs/guides/a/b/c",
                  "/docs/guides/bayes/basics/", "/about|us"} :
         \E i \in 1..Len(occs) : occs[i].url = u /\ occs[i].status = "broken"
    /\ \E i, j \in 1..Len(occs) :
         /\ occs[i].url = "/docs/guides/bayes/basics/"
         /\ "guides/bayes/basics.md" \in occs[i].files
         /\ occs[j].fileNo = occs[i].fileNo /\ occs[j].linkNo > occs[i].linkNo

\* C12: a URL that starts with #, mailto: or tel:, or that has no checkable
\* prefix, is never handed to check_internal_path or check_external_url and
\* no record is written for it, whatever the flags.  (Stated of the request
\* in flight and of the latest entry of occs in every state.)
C12_ExcludedNeverChecked ==
    /\ \A c \in curl : ~NotCheckable(c.url)
    /\ occs # <<>> =>
         LET o == occs[Len(occs)]
         IN  NotCheckable(o.url) =>
                 /\ o.via = "none"
                 /\ o.status = "ok"
                 /\ \A k \in 1..Len(BROKEN_FILE) :
                      BROKEN_FILE[k] # RecordLine(Relative(o.file), o.line, o.url, o.kind)

\* C12 witness: a scan without --skip-external has met an anchor, a mailto:
\* link, a tel: link and a relative link, and has recorded other links.
C12_Witness ==
    /\ ScanFinished
    /\ SKIP_EXTERNAL = FALSE
    /\ \A u \in {"#top", "mailto:a@b.c", "tel:+1555", "rel.md"} :
         \E i \in 1..Len(occs) : occs[i].url = u /\ occs[i].via = "none"
    /\ BROKEN_FILE # <<>>

\* C13: check_external_url answers ok exactly when a response was received
\* and its final status code is in [100, 400), and broken when the code is
\* at least 400 or no response was obtained (no connection, time limit).
\* (Stated of the latest entry of occs in every state.)
C13_ValidatorStatusRange ==
    occs # <<>> =>
        LET o == occs[Len(occs)]
        IN  o.via = "validator" =>
                (o.status = "ok" <=>
                    /\ ResponseReceived(o.curl)
                    /\ 100 <= StatusCode(o.curl)
                    /\ StatusCode(o.curl) < 400)

\* C14: an external validation that got no response is decided as broken,
\* its record is appended, and the run does not end there: a run that has
\* ended has gone through the rest of the scan and printed its report.
\* (Stated of the latest entry of occs in every state.)
C14_ValidationFailureAbsorbed ==
    occs # <<>> =>
        LET o == occs[Len(occs)]
        IN  (o.via = "validator" /\ ~ResponseReceived(o.curl)) =>
                /\ o.status = "broken"
                /\ tmpExists =>
                      /\ BROKEN_FILE # <<>>
                      /\ BROKEN_FILE[Len(BROKEN_FILE)] =
                            RecordLine(Relative(o.file), o.line, o.url, "external")
                /\ pc = "done" => (queue = <<>> /\ grepOut = <<>> /\ Has("totals"))

\* C15: standard output carries the per-file progress lines first, then the
\* grouped summary, then the totals line: no line of the summary comes
\* before a progress line or after the totals line.
C15_OutputOrder ==
    \A i, j \in 1..Len(out) :
        /\ (out[i].tag \in ProgressTags /\ out[j].tag \in SummaryTags) => i < j
        /\ (out[i].tag \in SummaryTags /\ out[j].tag = "totals") => i < j

\* C16: claude is run at most once, and only with --fix, with at least one
\* broken link recorded, after the scan is over and the summary is printed;
\* and a run with --fix that printed a summary of broken links and ended has
\* run it.
C16_DispatchOnlyWhenAsked ==
    /\ claudeRuns <= 1
    /\ claudeRuns = 1 =>
         /\ FIX_MODE = TRUE
         /\ BrokenOccs # <<>>
         /\ queue = <<>> /\ grepOut = <<>> /\ curl = {}
         /\ Has("found") /\ Has("item")
    /\ (pc = "done" /\ Has("totals")) =>
         (claudeRuns = 1 <=> (FIX_MODE = TRUE /\ BrokenOccs # <<>>))

\* C16 witness: a run with --fix has printed its summary and run claude.
C16_Witness ==
    /\ pc = "done"
    /\ FIX_MODE = TRUE
    /\ Has("item")
    /\ claudeRuns = 1

\* C16 witness of the other side: a run with --fix found nothing broken and
\* ended without running claude.
C16_WitnessNothingBroken ==
    /\ pc = "done"
    /\ FIX_MODE = TRUE
    /\ Has("allvalid") /\ files_checked > 0
    /\ claudeRuns = 0

\* C17: the summary on standard output and the prompt handed to claude each
\* list every broken occurrence once, under the heading of its own file, with
\* the file, line, URL and kind found during the scan, also when a URL or a
\* file path contains the character |.
C17_ListingsFaithful ==
    /\ Has("found") => Entries(out) = Faithful(BrokenOccs, 1, "", "", "  ")
    /\ claudeRuns = 1 => Entries(prompt) = Faithful(BrokenOccs, 1, "", "## ", "- ")

\* C18: a run whose command line holds -h or --help, at any position and
\* with any other flags, never scans a file, checks a link or runs claude,
\* whatever the content tree holds; when it has ended it has printed the
\* usage and its exit status is 0.
C18_HelpOnly ==
    HelpRequested =>
        /\ pc \in {"parse", "done"}
        /\ ~Has("checking") /\ ~Has("banner")
        /\ files_checked = 0 /\ occs = <<>> /\ curl = {} /\ BROKEN_FILE = <<>>
        /\ claudeRuns = 0
        /\ pc = "done" => (exitCode = 0 /\ Has("usage"))

\* C18 witness: --fix -h on a tree that can be listed and holds a file with
\* links has ended.
C18_Witness ==
    /\ HelpRequested
    /\ pc = "done"
    /\ FIX_MODE = TRUE
    /\ rootOk
    /\ \E p \in DOMAIN fs : Grep(fs[p]) # <<>>

C20_InterruptKeepsRecords ==
    (pc = "done" /\ exitCode = 130 /\ BrokenOccs # <<>>) =>
        \/ tmpExists /\ Len(BROKEN_FILE) = Len(BrokenOccs)
        \/ Has("found") /\ Entries(out) # <<>>

\* C21: a file that could not be read is not counted as a scanned file
\* without issues: when process_file has returned for it, main has it among
\* the files with issues.
C21_ReadFailureReported ==
    (pc = "loop" /\ file \in unread) => has_errors = TRUE

\* C22: the chain of process_file treats every URL as the ordered rule list
\* does: a URL is handed to check_external_url only if the rules call it
\* External, to check_internal_path exactly if they call it Internal, gets
\* link_type external exactly if they call it External, and is left
\* unchecked if they call it Anchor, ContactScheme or excluded; a prefix in
\* another case is no prefix.  (Stated of the request in flight and of the
\* latest entry of occs in every state.)
C22_ChainAgreesWithRules ==
    /\ \A c \in curl : KindByRules(c.url) = "External"
    /\ occs # <<>> =>
         LET o == occs[Len(occs)]
             k == KindByRules(o.url)
         IN  /\ o.via = "validator" => k = "External"
             /\ (k = "External" /\ SKIP_EXTERNAL = FALSE) => o.via = "validator"
             /\ o.via = "resolver" <=> k = "Internal"
             /\ o.kind = "external" <=> k = "External"
             /\ k \in {"Anchor", "ContactScheme", "Excluded"} =>
                    (o.via = "none" /\ o.status = "ok")

\* C22 witness: a link to HTTP://x, which only a test that ignores case
\* would call external, was met without --skip-external and left unchecked.
C22_Witness ==
    /\ SKIP_EXTERNAL = FALSE
    /\ ScanFinished
    /\ \E i \in 1..Len(occs) : occs[i].url = "HTTP://x" /\ occs[i].via = "none"

\* C23: while a file is scanned, the occurrences decided for it are the
\* first link tokens of its text, in order, each with the 1-based number of
\* its line and its own URL, and when its scan is over they are all of its
\* tokens: none for a text without a token.
C23_ExtractorReportsTokens ==
    (pc = "link" /\ curl = {} /\ file \in DOMAIN fs) =>
        LET tokens == TokensFrom(fs[file], 1)
            mine   == OccsOfCurrentFile
        IN  /\ Len(mine) + Len(grepOut) = Len(tokens)
            /\ \A k \in 1..Len(mine) :
                 /\ mine[k].line = ToString(tokens[k].line)
                 /\ mine[k].url = tokens[k].url

\* C24: an internal URL with a fragment resolves as the URL cut at its
\* first # does: as check_internal_path answers for the cut URL, and as any
\* occurrence with the same cut URL was decided over the same files; when it
\* is broken, its record holds the URL with the fragment and the kind
\* internal.  (Stated of the latest entry of occs in every state.)
C24_FragmentIgnoredForResolution ==
    occs # <<>> =>
        LET o == occs[Len(occs)]
            u == StripFrom(o.url, "#")
        IN  (o.via = "resolver" /\ HasFragment(o.url)) =>
                /\ o.status = "ok" <=> check_internal_path(u, o.files)
                /\ \A i \in 1..Len(occs) :
                     (/\ occs[i].via = "resolver"
                      /\ StripFrom(occs[i].url, "#") = u
                      /\ occs[i].files = o.files) => occs[i].status = o.status
                /\ o.kind = "internal"
                /\ (o.status = "broken" /\ tmpExists) =>
                     /\ BROKEN_FILE # <<>>
                     /\ BROKEN_FILE[Len(BROKEN_FILE)] =
                           RecordLine(Relative(o.file), o.line, o.url, "internal")

\* C24 witness: /docs/tutorials/start and /docs/tutorials/start#top both
\* resolved, and the record of the broken /docs/guides/bayes/basics#use
\* holds the fragment.
C24_Witness ==
    /\ ScanFinished
    /\ \E i, j \in 1..Len(occs) :
         /\ occs[i].url = "/docs/tutorials/start" /\ occs[i].status = "ok"
         /\ occs[j].url = "/docs/tutorials/start#top" /\ occs[j].status = "ok"
    /\ \E k \in 1..Len(BROKEN_FILE) :
         EndsWith(BROKEN_FILE[k], "|2|/docs/guides/bayes/basics#use|internal")

C26_PhaseOrder ==
    [][ /\ PhaseRank' >= PhaseRank
        /\ Has("totals") =>
              /\ occs' = occs /\ curl' = curl /\ curl = {}
              /\ files_checked' = files_checked
              /\ BROKEN_FILE' = BROKEN_FILE \/ BROKEN_FILE' = <<>>
        /\ claudeRuns' # claudeRuns => (pc = "fix" /\ Has("found") /\ pc' = "done")
      ]_vars

\* C26 witness: a run over two files went through every phase: it scanned,
\* reported two broken links, ran claude and ended.
C26_Witness ==
    /\ pc = "done"
    /\ files_checked = 2
    /\ Len(BrokenOccs) = 2
    /\ Has("totals") /\ Has("fixing")
    /\ claudeRuns = 1

\* C27: every link occurrence is decided once: no two entries of occs are
\* for the same occurrence and no request is in flight for an occurrence
\* already decided; and when the scan is over a URL to be checked that has k
\* tokens in the tree was checked k times and has one record for each check
\* that found it broken.
C27_OneCheckPerOccurrence ==
    /\ occs # <<>> =>
         LET o == occs[Len(occs)]
         IN  /\ \A i \in 1..(Len(occs) - 1) :
                  ~(occs[i].fileNo = o.fileNo /\ occs[i].linkNo = o.linkNo)
             /\ \A c \in curl : ~(c.fileNo = o.fileNo /\ c.linkNo = o.linkNo)
    /\ (ScanFinished /\ rootOk) =>
         \A u \in TokenUrls :
            ToBeChecked(u) =>
                /\ Cardinality(ChecksOf(u)) = TokenCount(u, 1)
                /\ Cardinality(RecordsOf(u)) = Cardinality(BrokenChecksOf(u))

\* C27 witness: /about|us occurs in two files and has two records, and the
\* external URL that occurs in the same two files was requested twice, the
\* first request ending as broken.
C27_Witness ==
    /\ ScanFinished
    /\ TokenCount("/about|us", 1) = 2
    /\ Cardinality(RecordsOf("/about|us")) = 2
    /\ \E i, j \in ChecksOf("https://ex.am/p") :
         i < j /\ occs[i].status = "broken"

C29_TreeUntouchedSideFileRemoved ==
    [][ /\ fs' = fs /\ enum' = enum /\ rootOk' = rootOk
        /\ (pc # "done" => tmpExists)
        /\ (pc' = "done" => ~tmpExists' /\ BROKEN_FILE' = <<>>) ]_vars

\* A run without --fix that wrote records to the side file and exited 1.
C29_Witness ==
    /\ pc = "done"
    /\ FIX_MODE = FALSE
    /\ exitCode = 1
    /\ Has("found")
    /\ BrokenOccs # <<>>
    /\ ~tmpExists
    /\ BROKEN_FILE = <<>>

\* The tutorials of the directory d other than index, by name, in the order
\* of the loop.
NonIndexTutorials(d) ==
    LET ms == SelectSeq(DirEntries, LAMBDA e : e \in d /\ HasSuffix(e, ".md") /\ e # "index.md")
    IN  [i \in 1..Len(ms) |-> SubSeq(ms[i], 1, Len(ms[i]) - 3)]

\* The names of a sequence of test records, each after a space.
RECURSIVE NamesOf(_)
NamesOf(ts) == IF ts = <<>> THEN "" ELSE " " \o Head(ts).name \o NamesOf(Tail(ts))

AfterTutorialLoop == testAll.pc = "done" \/ (testAll.pc = "loop" /\ testAll.glob = <<>>)

\* C30: after the loop of test-all-tutorials.sh without --fix, the tutorials
\* tested are the tutorials of the directory other than index, each once and
\* in order; PASS_COUNT + FAIL_COUNT is their number; PASS_COUNT counts the
\* outputs that contain "STATUS: PASS"; FAILED_TUTORIALS names the others in
\* order.  With --fix nothing is counted and no summary is printed.
C30_EveryTutorialCountedOnce ==
    AfterTutorialLoop =>
      LET T      == NonIndexTutorials(testAll.dir)
          passed == SelectSeq(testAll.tested, LAMBDA t : Contains(t.OUTPUT, "STATUS: PASS"))
          failed == SelectSeq(testAll.tested, LAMBDA t : ~Contains(t.OUTPUT, "STATUS: PASS"))
      IN  IF testAll.FIX_MODE = "--fix"
          THEN /\ testAll.PASS_COUNT = 0 /\ testAll.FAIL_COUNT = 0
               /\ testAll.FAILED_TUTORIALS = ""
               /\ \A i \in 1..Len(testAll.out) : testAll.out[i].tag # "summary"
          ELSE /\ [i \in 1..Len(testAll.tested) |-> testAll.tested[i].name] = T
               /\ testAll.PASS_COUNT + testAll.FAIL_COUNT = Len(T)
               /\ testAll.PASS_COUNT = Len(passed)
               /\ testAll.FAIL_COUNT = Len(failed)
               /\ testAll.FAILED_TUTORIALS = NamesOf(failed)
               /\ (testAll.pc = "done" =>
                     \E i \in 1..Len(testAll.out) : testAll.out[i].tag = "summary")

TypeOK == pc \in {"parse", "loop", "link", "curl", "fix", "done"}
====
